---- MODULE Spec2Model ----
(***************************************************************************)
(* A model of the EndNote-XML to BibTeX conversion engine                  *)
(* (src/xml_converter.py, class XML) and of the window that drives it      *)
(* (src/main.py, class MainApp).                                           *)
(*                                                                         *)
(* Spec runs convert_to_bibtex statement group by statement group, on      *)
(* every kind of argument. AppSpec runs the handlers of MainApp, each as   *)
(* one step, the conversion call inside convert_file included.             *)
(*                                                                         *)
(* Representation.                                                         *)
(*   - A Python string that reaches the output is a sequence of string     *)
(*     fragments whose concatenation is the Python string: the literals    *)
(*     of the code ("@", "article", "\n\t", " = {", ...) are one fragment  *)
(*     each, the characters of an input text are one fragment each.        *)
(*   - The value of Element.text is a tagged record: None, a str (its      *)
(*     characters) or an int (its decimal digits), the last being possible *)
(*     only when the caller hands over an ET.Element it built itself.      *)
(*   - An attribute value is a str (an atomic string: it is only compared  *)
(*     and looked up) or a list (unhashable), again only for ET.Element    *)
(*     input.                                                              *)
(*   - An input string is represented by what xml.etree's parser makes of  *)
(*     it: a ParseError with its message, or the element tree.             *)
(***************************************************************************)
EXTENDS Naturals, Sequences, FiniteSets, TLC

VARIABLES
    suppress_warnings,      \* XML.suppress_warnings
    extract_styled_text,    \* XML.extract_styled_text
    conversion_errors,      \* XML.conversion_errors
    pc,                     \* position inside convert_to_bibtex
    xml_data,               \* the argument of the running / last call
    records,                \* local: the located records
    index,                  \* local: the loop index (0-based, as enumerate)
    bibtex_entries,         \* local: the entries produced so far
    fields,                 \* local: the FieldSet of the last processed record
    result,                 \* the value the last call returned
    stdout,                 \* what print() wrote during the running / last call
    had_errors,             \* history: the list the last reset replaced held errors
    converted_text,         \* MainApp.converted_text
    save_button,            \* MainApp.save_button is shown
    quick_save_button,      \* MainApp.quick_save_button is shown
    progress_label,         \* the text of MainApp.progress_label
    handler,                \* where MainApp.convert_file stands
    saved_file              \* the file the last save wrote: its name and content

\* the converter
xml_vars == <<suppress_warnings, extract_styled_text, conversion_errors, pc,
              xml_data, records, index, bibtex_entries, fields, result, stdout,
              had_errors>>

\* the window
app_vars == <<converted_text, save_button, quick_save_button, progress_label,
              handler, saved_file>>

vars == <<xml_vars, app_vars>>

---------------------------------------------------------------------------
(* Bounds of the model.                                                    *)

MaxRecords == 2     \* records of a multi-record document
MaxStyles == 2      \* style sub-elements of one field element
MaxAuthors == 2     \* author (keyword) elements of one container
MaxTextLen == 1     \* characters of one text node

---------------------------------------------------------------------------
(* Python values.                                                          *)

PyNone == [k |-> "none", s |-> <<>>]
PyStr(s) == [k |-> "str", s |-> s]
PyInt(digits) == [k |-> "int", s |-> digits]

\* bool(v) of a str, an int or None
Truthy(v) ==
    CASE v.k = "none" -> FALSE
      [] v.k = "str" -> v.s # <<>>
      [] v.k = "int" -> v.s # <<"0">>

\* str.strip(): whitespace removed at both ends
RECURSIVE lstrip(_)
lstrip(s) == IF s # <<>> /\ Head(s) = " " THEN lstrip(Tail(s)) ELSE s

RECURSIVE rstrip(_)
rstrip(s) ==
    IF s # <<>> /\ s[Len(s)] = " " THEN rstrip(SubSeq(s, 1, Len(s) - 1)) ELSE s

strip(s) == rstrip(lstrip(s))

\* str(n) of a natural number: its decimal digits
Digit(d) == <<"0", "1", "2", "3", "4", "5", "6", "7", "8", "9">>[d + 1]

RECURSIVE str_of_int(_)
str_of_int(n) ==
    IF n < 10 THEN <<Digit(n)>> ELSE str_of_int(n \div 10) \o <<Digit(n % 10)>>

\* sep.join(parts), parts a sequence of fragment sequences
RECURSIVE join(_, _)
join(sep, parts) ==
    IF parts = <<>> THEN <<>>
    ELSE IF Len(parts) = 1 THEN parts[1]
    ELSE parts[1] \o sep \o join(sep, Tail(parts))

---------------------------------------------------------------------------
(* xml.etree.ElementTree elements and the path language the code uses.     *)

\* An Element. attrib is a sequence of <<name, value>> pairs, value a
\* [k |-> "str" | "list", v |-> ...] record.
Element(tag, attrib, text, children) ==
    [tag |-> tag, attrib |-> attrib, text |-> text, children |-> children]

\* The None a failed find() returns.
NoElement == Element("<None>", <<>>, PyNone, <<>>)

AttrStr(v) == [k |-> "str", v |-> v]
AttrList == [k |-> "list", v |-> "[]"]

\* name in elem.attrib
attrib_has(elem, name) == \E i \in 1..Len(elem.attrib) : elem.attrib[i][1] = name

\* elem.attrib.get(name, default)
attrib_get(elem, name, default) ==
    IF attrib_has(elem, name)
    THEN elem.attrib[CHOOSE i \in 1..Len(elem.attrib) : elem.attrib[i][1] = name][2]
    ELSE default

\* list(e.iter() for e in elems): the elements and all their descendants, in
\* document order
RECURSIVE iter(_)
iter(elems) ==
    IF elems = <<>> THEN <<>>
    ELSE <<Head(elems)>> \o iter(Head(elems).children) \o iter(Tail(elems))

\* the '//tag' step from one context element: its descendants (not itself)
\* with that tag, in document order
descendant_step(elem, tag) == SelectSeq(iter(elem.children), LAMBDA e : e.tag = tag)

\* the '/tag' step from a sequence of context elements: for each context
\* element in turn, its children with that tag
RECURSIVE child_step(_, _)
child_step(elems, tag) ==
    IF elems = <<>> THEN <<>>
    ELSE SelectSeq(Head(elems).children, LAMBDA e : e.tag = tag)
         \o child_step(Tail(elems), tag)

RECURSIVE child_steps(_, _)
child_steps(elems, tags) ==
    IF tags = <<>> THEN elems
    ELSE child_steps(child_step(elems, Head(tags)), Tail(tags))

\* elem.findall('.//t1/t2/.../tn'), the path given as <<t1, ..., tn>>
findall(elem, path) ==
    child_steps(descendant_step(elem, Head(path)), Tail(path))

\* elem.find('.//t1/.../tn'): the first match or None
first_or_none(found) == IF found = <<>> THEN NoElement ELSE found[1]

find(elem, path) == first_or_none(findall(elem, path))

is_none(elem) == elem.tag = "<None>"

---------------------------------------------------------------------------
(* class XML: the tables.                                                  *)

\* self.entry_type_map
entry_type_map ==
    << <<"Journal Article", "article">>,
       <<"Book", "book">>,
       <<"Book Section", "incollection">>,
       <<"Conference Paper", "inproceedings">>,
       <<"Conference Proceedings", "proceedings">>,
       <<"Conference Proceeding", "proceedings">>,
       <<"Thesis", "phdthesis">>,
       <<"Report", "techreport">>,
       <<"Web Page", "online">>,
       <<"Patent", "patent">>,
       <<"Unpublished Work", "unpublished">>,
       <<"Manuscript", "unpublished">>,
       <<"Magazine Article", "article">>,
       <<"Newspaper Article", "article">>,
       <<"Electronic Article", "article">>,
       <<"Generic", "misc">> >>

\* table.get(key, default) of a dict held as a sequence of <<key, value>>
\* pairs with distinct keys
dict_get(table, key, default) ==
    IF \E i \in 1..Len(table) : table[i][1] = key
    THEN table[CHOOSE i \in 1..Len(table) : table[i][1] = key][2]
    ELSE default

\* the dict inside _get_required_fields
required_fields_table ==
    << <<"article", <<"author", "title", "journal", "year">> >>,
       <<"book", <<"author", "title", "publisher", "year">> >>,
       <<"inbook", <<"author", "title", "publisher", "year">> >>,
       <<"incollection", <<"author", "title", "booktitle", "publisher", "year">> >>,
       <<"inproceedings", <<"author", "title", "booktitle", "year">> >>,
       <<"proceedings", <<"title", "year">> >>,
       <<"phdthesis", <<"author", "title", "school", "year">> >>,
       <<"mastersthesis", <<"author", "title", "school", "year">> >>,
       <<"techreport", <<"author", "title", "institution", "year">> >>,
       <<"online", <<"title", "url">> >>,
       <<"misc", <<"title">> >>,
       <<"patent", <<"author", "title", "number", "year">> >>,
       <<"unpublished", <<"author", "title", "note">> >> >>

_get_required_fields(entry_type) == dict_get(required_fields_table, entry_type, <<>>)

---------------------------------------------------------------------------
(* XML._extract_text_from_styled_element                                   *)

\* What a call gives: the returned value, or the exception it raised.
Returned(val) == [raised |-> FALSE, val |-> val, exc |-> <<>>]
Raised(exc) == [raised |-> TRUE, val |-> PyNone, exc |-> exc]

\* [style.text if style.text else "" for style in styles]
RECURSIVE style_texts(_)
style_texts(styles) ==
    IF styles = <<>> THEN <<>>
    ELSE <<IF Truthy(Head(styles).text) THEN Head(styles).text ELSE PyStr(<<>>)>>
         \o style_texts(Tail(styles))

RECURSIVE concat_strs(_)
concat_strs(items) ==
    IF items = <<>> THEN <<>> ELSE Head(items).s \o concat_strs(Tail(items))

\* "".join(items): TypeError at the first item that is no str
first_non_str(items) ==
    CHOOSE i \in 1..Len(items) :
        /\ items[i].k # "str"
        /\ \A j \in 1..(i - 1) : items[j].k = "str"

str_join(items) ==
    IF \E i \in 1..Len(items) : items[i].k # "str"
    THEN Raised(<<"sequence item ">> \o str_of_int(first_non_str(items) - 1)
                \o <<": expected str instance, int found">>)
    ELSE Returned(PyStr(concat_strs(items)))

\* mutant: the flag is not consulted
extract_text_flag_ignored(element) ==
    IF is_none(element) THEN Returned(PyStr(<<>>))
    ELSE IF ~is_none(find(element, <<"style">>))
    THEN str_join(style_texts(findall(element, <<"style">>)))
    ELSE Returned(IF Truthy(element.text) THEN element.text ELSE PyStr(<<>>))

_extract_text_from_styled_element(element) ==
    IF is_none(element) THEN Returned(PyStr(<<>>))
    ELSE IF extract_styled_text /\ ~is_none(find(element, <<"style">>))
    THEN str_join(style_texts(findall(element, <<"style">>)))
    ELSE Returned(IF Truthy(element.text) THEN element.text ELSE PyStr(<<>>))

---------------------------------------------------------------------------
(* XML._extract_fields_from_xml                                            *)

\* d[key] = value on a dict held as a sequence of <<key, value>> pairs: an
\* existing key keeps its place, a new key goes last
dict_set(d, key, value) ==
    IF \E i \in 1..Len(d) : d[i][1] = key
    THEN [i \in 1..Len(d) |-> IF d[i][1] = key THEN <<key, value>> ELSE d[i]]
    ELSE Append(d, <<key, value>>)

dict_has(d, key) == \E i \in 1..Len(d) : d[i][1] = key

\* The state of the try block: the dict built so far, or the exception that
\* ended the block.
TryStart == [fields |-> <<>>, raised |-> FALSE, exc |-> <<>>]
TryRaise(exc) == [fields |-> <<>>, raised |-> TRUE, exc |-> exc]
TrySet(st, name, value) == [st EXCEPT !.fields = dict_set(st.fields, name, value)]

NoStrip == <<"'int' object has no attribute 'strip'">>

\* text.strip() of a value that passed "if text:"
py_strip(v) == IF v.k = "str" THEN Returned(strip(v.s)) ELSE Raised(NoStrip)

\* fields[name] = text.strip()
set_stripped(st, name, stripped) ==
    IF stripped.raised THEN TryRaise(stripped.exc) ELSE TrySet(st, name, stripped.val)

\* if text: fields[name] = text.strip()
set_if_text(st, name, text) ==
    IF text.raised THEN TryRaise(text.exc)
    ELSE IF ~Truthy(text.val) THEN st
    ELSE set_stripped(st, name, py_strip(text.val))

\* if elem is not None: text = self._extract_text_from_styled_element(elem); ...
set_from_elem(st, name, elem) ==
    IF is_none(elem) THEN st
    ELSE set_if_text(st, name, _extract_text_from_styled_element(elem))

\* The pattern of every single-valued field:
\*     elem = record.find(path)
\*     if elem is not None:
\*         text = self._extract_text_from_styled_element(elem)
\*         if text:
\*             fields[name] = text.strip()
single_field(st, record, path, name) ==
    IF st.raised THEN st ELSE set_from_elem(st, name, find(record, path))

\* names.append(text.strip()), then the rest of the loop
append_stripped(stripped, rest) ==
    IF stripped.raised THEN stripped
    ELSE IF rest.raised THEN rest
    ELSE Returned(<<stripped.val>> \o rest.val)

\* The loop over the author (keyword) elements:
\*     for e in elems:
\*         text = self._extract_text_from_styled_element(e)
\*         if text:
\*             names.append(text.strip())
RECURSIVE collect_texts(_)

collect_from(text, rest_elems) ==
    IF text.raised THEN text
    ELSE IF ~Truthy(text.val) THEN collect_texts(rest_elems)
    ELSE append_stripped(py_strip(text.val), collect_texts(rest_elems))

collect_texts(elems) ==
    IF elems = <<>> THEN Returned(<<>>)
    ELSE collect_from(_extract_text_from_styled_element(Head(elems)), Tail(elems))

\* if names: fields[name] = sep.join(names)
set_joined(st, name, sep, names) ==
    IF names.raised THEN TryRaise(names.exc)
    ELSE IF names.val = <<>> THEN st
    ELSE TrySet(st, name, join(sep, names.val))

authors_from(st, authors_elem) ==
    IF is_none(authors_elem) THEN st
    ELSE set_joined(st, "author", <<" and ">>,
                    collect_texts(findall(authors_elem, <<"author">>)))

authors_field(st, record) ==
    IF st.raised THEN st
    ELSE authors_from(st, find(record, <<"contributors", "authors">>))

\* lines 155-160: the key the secondary title goes under, "" for none
venue_key(ref_type_elem) ==
    IF is_none(ref_type_elem) \/ ~attrib_has(ref_type_elem, "name") THEN ""
    ELSE IF attrib_get(ref_type_elem, "name", AttrStr("")) = AttrStr("Journal Article")
    THEN "journal"
    ELSE "booktitle"

secondary_set(st, secondary_text, key) ==
    IF secondary_text.raised THEN TryRaise(secondary_text.exc)
    ELSE IF ~Truthy(secondary_text.val) THEN st
    ELSE IF key = "" THEN st
    ELSE set_stripped(st, key, py_strip(secondary_text.val))

secondary_from(st, record, secondary_title) ==
    IF is_none(secondary_title) THEN st
    ELSE secondary_set(st, _extract_text_from_styled_element(secondary_title),
                       venue_key(find(record, <<"ref-type">>)))

secondary_title_field(st, record) ==
    IF st.raised THEN st
    ELSE secondary_from(st, record, find(record, <<"titles", "secondary-title">>))

keywords_from(st, keywords_elem) ==
    IF keywords_elem = <<>> THEN st
    ELSE set_joined(st, "keywords", <<", ">>, collect_texts(keywords_elem))

keywords_field(st, record) ==
    IF st.raised THEN st
    ELSE keywords_from(st, findall(record, <<"keywords", "keyword">>))

ExtraTags == <<"edition", "address", "note", "month", "series", "chapter">>

\* The statements of the try block, in order.
ExtractSteps ==
    << <<"single", <<"titles", "title">>, "title">>,
       <<"authors", <<>>, "author">>,
       <<"single", <<"dates", "year">>, "year">>,
       <<"secondary", <<>>, "">>,
       <<"single", <<"volume">>, "volume">>,
       <<"single", <<"number">>, "number">>,
       <<"single", <<"pages">>, "pages">>,
       <<"single", <<"publisher">>, "publisher">>,
       <<"single", <<"urls", "related-urls", "url">>, "url">>,
       <<"single", <<"electronic-resource-num">>, "doi">>,
       <<"single", <<"abstract">>, "abstract">>,
       <<"keywords", <<>>, "keywords">>,
       <<"single", <<"isbn">>, "isbn">> >>
    \o [i \in 1..Len(ExtraTags) |-> <<"single", <<ExtraTags[i]>>, ExtraTags[i]>>]

extract_step(st, record, step) ==
    CASE step[1] = "single" -> single_field(st, record, step[2], step[3])
      [] step[1] = "authors" -> authors_field(st, record)
      [] step[1] = "secondary" -> secondary_title_field(st, record)
      [] step[1] = "keywords" -> keywords_field(st, record)

RECURSIVE extract_steps(_, _, _)
extract_steps(st, record, steps) ==
    IF steps = <<>> THEN st
    ELSE extract_steps(extract_step(st, record, Head(steps)), record, Tail(steps))

\* The body of the try block.
extract_try(record) == extract_steps(TryStart, record, ExtractSteps)

\* error_msg of the except block
extract_error_msg(st) == <<"Error extracting fields: ">> \o st.exc

\* What the method gives, from the outcome of its try block: the returned
\* dict, the messages appended to self.conversion_errors, the lines printed.
extract_outcome(st) ==
    IF st.raised
    THEN [ret |-> <<>>,
          errors |-> <<extract_error_msg(st)>>,
          out |-> IF ~suppress_warnings THEN <<extract_error_msg(st)>> ELSE <<>>]
    ELSE [ret |-> st.fields, errors |-> <<>>, out |-> <<>>]

_extract_fields_from_xml(record) == extract_outcome(extract_try(record))

---------------------------------------------------------------------------
(* XML._format_fields                                                      *)

field_line(field, field_value) == <<"\n\t", field, " = {">> \o field_value \o <<"},">>

\* the first loop: the lines of the required fields that are present
RECURSIVE required_lines(_, _)
required_lines(flds, required_fields) ==
    IF required_fields = <<>> THEN <<>>
    ELSE (IF dict_has(flds, Head(required_fields))
          THEN field_line(Head(required_fields),
                          dict_get(flds, Head(required_fields), <<>>))
          ELSE <<>>)
         \o required_lines(flds, Tail(required_fields))

\* the first loop: missing_fields
missing_required(flds, required_fields) ==
    SelectSeq(required_fields, LAMBDA f : ~dict_has(flds, f))

seq_has(seq, x) == \E i \in 1..Len(seq) : seq[i] = x

\* the second loop: the lines of the fields that are not required ones
RECURSIVE flexible_lines(_, _)
flexible_lines(items, required_fields) ==
    IF items = <<>> THEN <<>>
    ELSE (IF ~seq_has(required_fields, Head(items)[1])
          THEN field_line(Head(items)[1], Head(items)[2])
          ELSE <<>>)
         \o flexible_lines(Tail(items), required_fields)

\* repr() of a list of field names
RECURSIVE repr_items(_)
repr_items(names) ==
    IF names = <<>> THEN <<>>
    ELSE IF Len(names) = 1 THEN <<"'", names[1], "'">>
    ELSE <<"'", names[1], "'", ", ">> \o repr_items(Tail(names))

repr_list(names) == <<"[">> \o repr_items(names) \o <<"]">>

missing_warning(flds, missing_fields) ==
    <<"Warning: Missing required field(s) for BibTeX entry '">>
    \o dict_get(flds, "title", <<>>) \o <<"': ">> \o repr_list(missing_fields)

format_out(flds, missing_fields) ==
    IF missing_fields # <<>> /\ ~suppress_warnings
    THEN <<missing_warning(flds, missing_fields)>>
    ELSE <<>>

\* mutant: every field in insertion order, the required ones not first
format_fields_unordered(flds, required_fields) ==
    [ret |-> flexible_lines(flds, <<>>),
     out |-> format_out(flds, missing_required(flds, required_fields))]

\* What the method gives: the returned text and the lines it printed.
_format_fields(flds, required_fields) ==
    [ret |-> required_lines(flds, required_fields) \o flexible_lines(flds, required_fields),
     out |-> format_out(flds, missing_required(flds, required_fields))]

---------------------------------------------------------------------------
(* XML.convert_to_bibtex                                                   *)

UnhashableList == <<"unhashable type: 'list'">>

\* mutant: self.entry_type_map[entry_type_name], a KeyError for an unknown
\* label
entry_type_of_strict(entry_type_name) ==
    IF entry_type_name.k = "list" THEN Raised(UnhashableList)
    ELSE IF \E i \in 1..Len(entry_type_map) : entry_type_map[i][1] = entry_type_name.v
    THEN Returned(dict_get(entry_type_map, entry_type_name.v, "misc"))
    ELSE Raised(<<"'", entry_type_name.v, "'">>)

\* self.entry_type_map.get(entry_type_name, 'misc'): a list as the key
\* raises TypeError
entry_type_of(entry_type_name) ==
    IF entry_type_name.k = "list" THEN Raised(UnhashableList)
    ELSE Returned(dict_get(entry_type_map, entry_type_name.v, "misc"))

\* mutant: a ref-type element without a name blocks the record's attribute
label_from_blocked(record, ref_type_elem) ==
    IF ~is_none(ref_type_elem)
    THEN attrib_get(ref_type_elem, "name", AttrStr("Generic"))
    ELSE attrib_get(record, "ref-type", AttrStr("Generic"))

\* lines 64-69: the reference-type label of a record
label_from(record, ref_type_elem) ==
    IF ~is_none(ref_type_elem) /\ attrib_has(ref_type_elem, "name")
    THEN attrib_get(ref_type_elem, "name", AttrStr(""))
    ELSE attrib_get(record, "ref-type", AttrStr("Generic"))

entry_type_name_of(record) == label_from(record, find(record, <<"ref-type">>))

\* lines 74-76: the key of the entry, given the entries produced so far
key_from(key_elem, entries) ==
    IF ~is_none(key_elem) /\ Truthy(key_elem.text)
    THEN key_elem.text.s
    ELSE <<"r", "e", "f">> \o str_of_int(Len(entries) + 1)

entry_key_of(record, entries) == key_from(find(record, <<"rec-number">>), entries)

\* lines 79-92: the entry of a record
bibtex_entry_of(entry_type, entry_key, formatted_fields) ==
    <<"@", entry_type, "{">> \o entry_key \o formatted_fields \o <<"\n}">>

\* lines 94-97: error_msg of the except block
record_error_msg(idx, exc) ==
    <<"Error processing record ">> \o str_of_int(idx + 1) \o <<": ">> \o exc

\* mutant: a record that raises takes the entries produced so far with it
loop_except_abort(idx, entries, errors, exc) ==
    [raised |-> TRUE,
     entries |-> <<>>,
     errors |-> Append(errors, record_error_msg(idx, exc)),
     out |-> IF ~suppress_warnings THEN <<record_error_msg(idx, exc)>> ELSE <<>>,
     fields |-> <<>>]

\* lines 93-98: the except block
loop_except(idx, entries, errors, exc) ==
    [raised |-> TRUE,
     entries |-> entries,
     errors |-> Append(errors, record_error_msg(idx, exc)),
     out |-> IF ~suppress_warnings THEN <<record_error_msg(idx, exc)>> ELSE <<>>,
     fields |-> <<>>]

\* lines 84-92, with the dict extracted and the lines formatted
loop_append(entries, errors, entry_type, entry_key, extracted, formatted) ==
    [raised |-> FALSE,
     entries |-> Append(entries, bibtex_entry_of(entry_type, entry_key, formatted.ret)),
     errors |-> errors \o extracted.errors,
     out |-> extracted.out \o formatted.out,
     fields |-> extracted.ret]

\* lines 82-88, with the dict extracted
loop_format(record, entries, errors, entry_type, extracted) ==
    loop_append(entries, errors, entry_type, entry_key_of(record, entries), extracted,
                _format_fields(extracted.ret, _get_required_fields(entry_type)))

\* mutant: the fallback key is numbered by the record's index
loop_typed_by_index(idx, record, entries, errors, entry_type) ==
    IF entry_type.raised
    THEN loop_except(idx, entries, errors, entry_type.exc)
    ELSE loop_append(entries, errors, entry_type.val,
                     key_from(find(record, <<"rec-number">>), [j \in 1..idx |-> <<>>]),
                     _extract_fields_from_xml(record),
                     _format_fields(_extract_fields_from_xml(record).ret,
                                    _get_required_fields(entry_type.val)))

\* mutant: a failed field extraction drops the record like an exception
loop_typed_drop(idx, record, entries, errors, entry_type) ==
    IF entry_type.raised
    THEN loop_except(idx, entries, errors, entry_type.exc)
    ELSE IF extract_try(record).raised
    THEN loop_except(idx, entries, errors, extract_try(record).exc)
    ELSE loop_format(record, entries, errors, entry_type.val,
                     _extract_fields_from_xml(record))

\* lines 72-98, with the outcome of the type lookup
loop_typed(idx, record, entries, errors, entry_type) ==
    IF entry_type.raised
    THEN loop_except(idx, entries, errors, entry_type.exc)
    ELSE loop_format(record, entries, errors, entry_type.val,
                     _extract_fields_from_xml(record))

\* The body of the for loop for one record (lines 63-98): the entries and
\* the errors after it, the lines it printed and the dict it extracted.
loop_body(idx, record, entries, errors) ==
    loop_typed(idx, record, entries, errors, entry_type_of(entry_type_name_of(record)))

---------------------------------------------------------------------------
(* The inputs of the model: the documents handed to convert_to_bibtex.     *)

Alphabet == {"a", "b", " "}

\* the strings of at most n characters
Strings(n) == UNION {[1..k -> Alphabet] : k \in 0..n}

\* what the parser leaves in Element.text: None or a non-empty str
ParsedTexts == {PyNone} \cup {PyStr(s) : s \in Strings(MaxTextLen) \ {<<>>}}

\* what a caller-built Element may also hold: "" or an int
BuiltTexts == {PyStr(<<>>), PyInt(<<"5">>)}

Leaf(tag, text) == Element(tag, <<>>, text, <<>>)

\* a field element whose value is direct text
DirectElems(tag, texts) == {Leaf(tag, t) : t \in texts}

\* the text of one style sub-element, as the parser leaves it: None or one
\* character
StyleTexts == {PyNone} \cup {PyStr(<<c>>) : c \in Alphabet}

\* a field element whose value is a run of style sub-elements, with or
\* without direct text of its own
StyleRuns(texts) ==
    UNION {[1..k -> {Leaf("style", t) : t \in texts}] : k \in 1..MaxStyles}

StyledElems(tag, texts) ==
    {Element(tag, <<>>, own, run) :
        own \in {PyNone, PyStr(<<"b">>)}, run \in StyleRuns(texts)}

Record(attrib, children) == Element("record", attrib, PyNone, children)

Titles(children) == Element("titles", <<>>, PyNone, children)

RefType(name) == Element("ref-type", <<<<"name", AttrStr(name)>>>>, PyStr(<<"5">>), <<>>)

Doc(root_tag, children) == Element(root_tag, <<>>, PyNone, children)

\* one record, varied in its title element
TitleRecords(texts, run_texts) ==
    {Record(<<>>, <<Titles(<<t>>)>>) :
        t \in DirectElems("title", texts) \cup StyledElems("title", run_texts)}

\* the texts of the author and keyword elements: none, blank, plain, and one
\* to trim
NameTexts == {PyNone, PyStr(<<" ">>), PyStr(<<"a">>), PyStr(<<" ", "b">>)}

\* one record, varied in the author elements of its authors container
AuthorRuns(texts) ==
    UNION {[1..k -> DirectElems("author", texts)
                    \cup {Element("author", <<>>, PyNone, <<Leaf("style", PyStr(<<"a">>))>>)}] :
            k \in 0..MaxAuthors}

AuthorRecords(texts) ==
    {Record(<<>>, <<Element("contributors", <<>>, PyNone,
                            <<Element("authors", <<>>, PyNone, run)>>)>>) :
        run \in AuthorRuns(texts)}

\* one record, varied in its keyword elements
KeywordRuns(texts) ==
    UNION {[1..k -> DirectElems("keyword", texts)] : k \in 0..MaxAuthors}

KeywordRecords(texts) ==
    {Record(<<>>, <<Element("keywords", <<>>, PyNone, run)>>) :
        run \in KeywordRuns(texts)}

\* the ways a record states its reference type: the record's attributes and
\* its ref-type child, if any
Labels == {"Journal Article", "Book", "Nonexistent Type"}

LabelShapes ==
    {[attrib |-> <<>>, elems |-> <<>>],
     [attrib |-> <<>>, elems |-> <<Leaf("ref-type", PyStr(<<"5">>))>>]}
    \cup {[attrib |-> <<>>, elems |-> <<RefType(l)>>] : l \in Labels}
    \cup {[attrib |-> <<<<"ref-type", AttrStr(l)>>>>, elems |-> <<>>] : l \in Labels}
    \cup {[attrib |-> <<<<"ref-type", AttrStr(l)>>>>,
           elems |-> <<Leaf("ref-type", PyStr(<<"5">>))>>] : l \in Labels}
    \cup {[attrib |-> <<<<"ref-type", AttrStr("Journal Article")>>>>,
           elems |-> <<RefType("Book")>>]}

\* one record, varied in its reference type and its secondary title
VenueRecords(texts) ==
    {Record(ls.attrib, ls.elems \o <<Titles(sec)>>) :
        ls \in LabelShapes,
        sec \in {<<>>} \cup {<<e>> : e \in DirectElems("secondary-title", texts)}}

\* a record with every field the extractor reads
FullRecord ==
    Record(<<>>,
        <<Leaf("rec-number", PyStr(<<"7">>)),
          RefType("Journal Article"),
          Element("contributors", <<>>, PyNone,
              <<Element("authors", <<>>, PyNone,
                  <<Leaf("author", PyStr(<<"a">>)), Leaf("author", PyStr(<<"b">>))>>)>>),
          Titles(<<Leaf("title", PyStr(<<"a">>)),
                   Leaf("secondary-title", PyStr(<<"b">>))>>),
          Element("dates", <<>>, PyNone, <<Leaf("year", PyStr(<<"2">>))>>),
          Leaf("volume", PyStr(<<"1">>)),
          Leaf("number", PyStr(<<"2">>)),
          Leaf("pages", PyStr(<<"3">>)),
          Leaf("publisher", PyStr(<<"a">>)),
          Element("urls", <<>>, PyNone,
              <<Element("related-urls", <<>>, PyNone, <<Leaf("url", PyStr(<<"a">>))>>)>>),
          Leaf("electronic-resource-num", PyStr(<<"a">>)),
          Leaf("abstract", PyStr(<<"a">>)),
          Element("keywords", <<>>, PyNone,
              <<Leaf("keyword", PyStr(<<"a">>)), Leaf("keyword", PyStr(<<"b">>))>>),
          Leaf("isbn", PyStr(<<"4">>)),
          Leaf("edition", PyStr(<<"a">>)),
          Leaf("address", PyStr(<<"a">>)),
          Leaf("note", PyStr(<<"a">>)),
          Leaf("month", PyStr(<<"a">>)),
          Leaf("series", PyStr(<<"a">>)),
          Leaf("chapter", PyStr(<<"a">>))>>)

\* the labels of self.entry_type_map
TableLabels == {entry_type_map[i][1] : i \in 1..Len(entry_type_map)}

\* the record with every field, under a label of the table
TypedRecord(label) == [FullRecord EXCEPT !.children[2] = RefType(label)]

\* the records of the multi-record documents
TitleA == Titles(<<Leaf("title", PyStr(<<"a">>))>>)
TitleB == Titles(<<Leaf("title", PyStr(<<"b">>))>>)

ParsedShapes ==
    {Record(<<>>, <<TitleA>>),
     Record(<<>>, <<Leaf("rec-number", PyStr(<<"7">>)), RefType("Book"), TitleB>>),
     Record(<<>>, <<Leaf("rec-number", PyNone), RefType("Nonexistent Type"), TitleA>>),
     Record(<<>>, <<>>)}

BuiltShapes ==
    {Record(<<>>, <<Element("ref-type", <<<<"name", AttrList>>>>, PyNone, <<>>), TitleA>>),
     Record(<<>>, <<Titles(<<Leaf("title", PyInt(<<"5">>))>>)>>),
     Record(<<>>, <<Titles(<<Element("title", <<>>, PyNone,
                                     <<Leaf("style", PyStr(<<"a">>)),
                                       Leaf("style", PyInt(<<"5">>))>>)>>)>>)}

\* a record as a child of the root, or inside a records container of its own
Placed(shapes) ==
    shapes \cup {Element("records", <<>>, PyNone, <<r>>) : r \in shapes}

\* the documents of at most MaxRecords records, each placed either way,
\* under a root named xml or records
MultiDocs(shapes) ==
    {Doc(root_tag, items) :
        root_tag \in {"xml", "records"},
        items \in UNION {[1..k -> Placed(shapes)] : k \in 0..MaxRecords}}

\* the documents of at most MaxRecords records in one records container
ExportDocs(shapes) ==
    {Doc("xml", <<Element("records", <<>>, PyNone, items)>>) :
        items \in UNION {[1..k -> shapes] : k \in 1..MaxRecords}}

SingleDocs(recs) == {Doc("xml", <<Element("records", <<>>, PyNone, <<r>>)>>) : r \in recs}

ParsedDocs ==
    SingleDocs(TitleRecords(ParsedTexts, StyleTexts) \cup AuthorRecords(NameTexts)
               \cup KeywordRecords(NameTexts) \cup VenueRecords(ParsedTexts)
               \cup {FullRecord} \cup {TypedRecord(l) : l \in TableLabels})
    \cup MultiDocs(ParsedShapes)
    \cup {Doc("record", <<TitleA>>)}

BuiltDocs ==
    SingleDocs(TitleRecords(BuiltTexts, BuiltTexts) \cup AuthorRecords(BuiltTexts))
    \cup (ExportDocs(ParsedShapes \cup BuiltShapes) \ ExportDocs(ParsedShapes))

\* the messages of the parser for the malformed strings of the model
ParseErrors == {<<"no element found: line 1, column 17">>,
                <<"mismatched tag: line 1, column 11">>}

\* xml_data: a str (held as its parse), an ET.Element, or anything else
Inputs ==
    {[kind |-> "str", perr |-> <<>>, root |-> d] : d \in ParsedDocs}
    \cup {[kind |-> "str", perr |-> e, root |-> NoElement] : e \in ParseErrors}
    \cup {[kind |-> "element", perr |-> <<>>, root |-> d] : d \in BuiltDocs}
    \cup {[kind |-> "other", perr |-> <<>>, root |-> NoElement]}

---------------------------------------------------------------------------
(* The state machine.                                                      *)

NoInput == [kind |-> "none", perr |-> <<>>, root |-> NoElement]

\* XML.__init__
Init ==
    /\ suppress_warnings = TRUE
    /\ extract_styled_text = TRUE
    /\ conversion_errors = <<>>
    /\ pc = "new"
    /\ xml_data = NoInput
    /\ records = <<>>
    /\ index = 0
    /\ bibtex_entries = <<>>
    /\ fields = <<>>
    /\ result = <<>>
    /\ stdout = <<>>
    /\ had_errors = FALSE
    /\ converted_text = PyNone
    /\ save_button = FALSE
    /\ quick_save_button = FALSE
    /\ progress_label = ""
    /\ handler = "idle"
    /\ saved_file = [path |-> "", content |-> PyNone]

\* return text: the call is over
Return(text, errors, out) ==
    /\ pc' = "returned"
    /\ result' = text
    /\ conversion_errors' = errors
    /\ stdout' = out

\* mutant: the error list is not reset at the start of a call
convert_to_bibtex_keep_errors(sw, est) ==
    /\ pc \in {"new", "returned"}
    /\ suppress_warnings' = sw
    /\ extract_styled_text' = est
    /\ conversion_errors' = conversion_errors
    /\ pc' = "parse"
    /\ xml_data' = NoInput
    /\ records' = <<>>
    /\ index' = 0
    /\ bibtex_entries' = <<>>
    /\ fields' = <<>>
    /\ result' = <<>>
    /\ stdout' = <<>>
    /\ had_errors' = (conversion_errors # <<>>)
    /\ UNCHANGED app_vars

\* The caller sets the two flags (src/main.py lines 406-409) and calls
\* convert_to_bibtex, which resets the error list (lines 28-30). The argument
\* is drawn where the code first reads it, in parse.
convert_to_bibtex(sw, est) ==
    /\ pc \in {"new", "returned"}
    /\ suppress_warnings' = sw
    /\ extract_styled_text' = est
    /\ conversion_errors' = <<>>
    /\ pc' = "parse"
    /\ xml_data' = NoInput
    /\ records' = <<>>
    /\ index' = 0
    /\ bibtex_entries' = <<>>
    /\ fields' = <<>>
    /\ result' = <<>>
    /\ stdout' = <<>>
    /\ had_errors' = (conversion_errors # <<>>)
    /\ UNCHANGED app_vars

\* mutant: a ParseError is answered with "" and no error is recorded
parse_silent(data) ==
    /\ pc = "parse"
    /\ xml_data' = data
    /\ IF data.kind \in {"str", "element"} /\ data.perr = <<>>
       THEN /\ pc' = "locate"
            /\ UNCHANGED <<result, conversion_errors, stdout>>
       ELSE Return(<<>>, conversion_errors, stdout)
    /\ UNCHANGED <<suppress_warnings, extract_styled_text, records, index,
                   bibtex_entries, fields, had_errors>>
    /\ UNCHANGED app_vars

\* lines 32-47: the argument is parsed, or is a tree already, or is neither
parse(data) ==
    /\ pc = "parse"
    /\ xml_data' = data
    /\ IF data.kind = "str" /\ data.perr # <<>>
       THEN LET error_msg == <<"Error parsing XML: ">> \o data.perr
            IN  Return(<<>>, Append(conversion_errors, error_msg), Append(stdout, error_msg))
       ELSE IF data.kind \in {"str", "element"}
       THEN /\ pc' = "locate"
            /\ UNCHANGED <<result, conversion_errors, stdout>>
       ELSE LET error_msg == <<"Invalid XML data type">>
            IN  Return(<<>>, Append(conversion_errors, error_msg), Append(stdout, error_msg))
    /\ UNCHANGED <<suppress_warnings, extract_styled_text, records, index,
                   bibtex_entries, fields, had_errors>>
    /\ UNCHANGED app_vars

\* mutant: only the fallback path is searched
locate_records_anywhere(xml_root) == findall(xml_root, <<"record">>)

\* lines 52-57: the records of the document
locate_records(xml_root) ==
    LET records_path == IF ~is_none(find(xml_root, <<"records", "record">>))
                        THEN <<"records", "record">>
                        ELSE <<"record">>
    IN  findall(xml_root, records_path)

\* mutant: an empty record list is not checked for
locate_unchecked ==
    /\ pc = "locate"
    /\ records' = locate_records(xml_data.root)
    /\ pc' = "loop"
    /\ UNCHANGED <<result, conversion_errors, stdout>>
    /\ UNCHANGED <<suppress_warnings, extract_styled_text, xml_data, index,
                   bibtex_entries, fields, had_errors>>
    /\ UNCHANGED app_vars

\* lines 49-60
locate ==
    /\ pc = "locate"
    /\ LET found == locate_records(xml_data.root)
       IN  /\ records' = found
           /\ IF found = <<>>
              THEN Return(<<>>, Append(conversion_errors, <<"No records found in XML data">>),
                          stdout)
              ELSE /\ pc' = "loop"
                   /\ UNCHANGED <<result, conversion_errors, stdout>>
    /\ UNCHANGED <<suppress_warnings, extract_styled_text, xml_data, index,
                   bibtex_entries, fields, had_errors>>
    /\ UNCHANGED app_vars

\* lines 62-98: one pass of the for loop
process_record ==
    /\ pc = "loop"
    /\ index < Len(records)
    /\ LET body == loop_body(index, records[index + 1], bibtex_entries, conversion_errors)
       IN  /\ bibtex_entries' = body.entries
           /\ conversion_errors' = body.errors
           /\ stdout' = stdout \o body.out
           /\ fields' = IF body.raised THEN fields ELSE body.fields
    /\ index' = index + 1
    /\ UNCHANGED <<suppress_warnings, extract_styled_text, xml_data, records, pc, result,
                   had_errors>>
    /\ UNCHANGED app_vars

\* mutant: any error makes the call report failure
finish_strict ==
    /\ pc = "loop"
    /\ index = Len(records)
    /\ IF conversion_errors # <<>>
       THEN Return(<<>>, conversion_errors,
                   Append(stdout, <<"Conversion failed with ">>
                                  \o str_of_int(Len(conversion_errors)) \o <<" errors">>))
       ELSE Return(join(<<"\n\n">>, bibtex_entries), conversion_errors, stdout)
    /\ UNCHANGED <<suppress_warnings, extract_styled_text, xml_data, records, index,
                   bibtex_entries, fields, had_errors>>
    /\ UNCHANGED app_vars

\* lines 100-104: the loop is over
finish ==
    /\ pc = "loop"
    /\ index = Len(records)
    /\ IF bibtex_entries = <<>> /\ conversion_errors # <<>>
       THEN Return(<<>>, conversion_errors,
                   Append(stdout, <<"Conversion failed with ">>
                                  \o str_of_int(Len(conversion_errors)) \o <<" errors">>))
       ELSE Return(join(<<"\n\n">>, bibtex_entries), conversion_errors, stdout)
    /\ UNCHANGED <<suppress_warnings, extract_styled_text, xml_data, records, index,
                   bibtex_entries, fields, had_errors>>
    /\ UNCHANGED app_vars

---------------------------------------------------------------------------
(* One call of convert_to_bibtex as a whole, on a fresh error list, under  *)
(* the flags as they are.                                                  *)

\* what a call leaves: the returned text, the error list, the lines printed
Outcome(text, errors, out) == [result |-> text, errors |-> errors, out |-> out]

\* lines 62-98: the entries, the errors and the lines printed after one more
\* pass of the loop
loop_pass(acc, body) ==
    [entries |-> body.entries, errors |-> body.errors, out |-> acc.out \o body.out]

RECURSIVE run_loop(_, _, _)
run_loop(recs, idx, acc) ==
    IF idx = Len(recs) THEN acc
    ELSE run_loop(recs, idx + 1,
                  loop_pass(acc, loop_body(idx, recs[idx + 1], acc.entries, acc.errors)))

\* lines 100-104
after_loop(acc) ==
    IF acc.entries = <<>> /\ acc.errors # <<>>
    THEN Outcome(<<>>, acc.errors,
                 Append(acc.out, <<"Conversion failed with ">>
                                 \o str_of_int(Len(acc.errors)) \o <<" errors">>))
    ELSE Outcome(join(<<"\n\n">>, acc.entries), acc.errors, acc.out)

\* lines 57-104
over_records(found) ==
    IF found = <<>>
    THEN Outcome(<<>>, << <<"No records found in XML data">> >>, <<>>)
    ELSE after_loop(run_loop(found, 0, [entries |-> <<>>, errors |-> <<>>, out |-> <<>>]))

\* lines 28-104
conversion(data) ==
    IF data.kind = "str" /\ data.perr # <<>>
    THEN Outcome(<<>>, << <<"Error parsing XML: ">> \o data.perr >>,
                 << <<"Error parsing XML: ">> \o data.perr >>)
    ELSE IF data.kind \in {"str", "element"}
    THEN over_records(locate_records(data.root))
    ELSE Outcome(<<>>, << <<"Invalid XML data type">> >>, << <<"Invalid XML data type">> >>)

---------------------------------------------------------------------------

Next ==
    \/ \E sw \in BOOLEAN, est \in BOOLEAN : convert_to_bibtex(sw, est)
    \/ \E data \in Inputs : parse(data)
    \/ locate
    \/ process_record
    \/ finish

Spec == Init /\ [][Next]_vars

---------------------------------------------------------------------------
(* MainApp (src/main.py): the handlers of the conversion tab. A handler    *)
(* runs to its end before the next one starts: while convert_file stands   *)
(* at its call of convert_to_bibtex no other handler is enabled, and       *)
(* processEvents() inside convert_file is taken with no user event         *)
(* pending. The locals of the conversion call do not outlive it, so pc,    *)
(* records, index, bibtex_entries and fields stay as they are.             *)

\* What the file entry names when Convert is pressed: no path, a path that
\* does not exist, a file named conversion_log.txt, a file that cannot be
\* read as UTF-8 text, a file whose content looks like a log, or a file
\* with the given content.
File(status, data) == [status |-> status, data |-> data]

\* the contents of the files of the model: malformed, without a record, and
\* one record varied in its title
FileContents ==
    {[kind |-> "str", perr |-> e, root |-> NoElement] : e \in ParseErrors}
    \cup {[kind |-> "str", perr |-> <<>>, root |-> d] :
            d \in {Doc("xml", <<>>)}
                  \cup SingleDocs(TitleRecords(ParsedTexts, {PyStr(<<"a">>)}))}

Files ==
    {File(st, NoInput) : st \in {"no path", "not found", "log name", "unreadable",
                                 "log content"}}
    \cup {File("readable", d) : d \in FileContents}

\* lines 382-384: the save buttons are hidden and the last result is dropped
reset_ui ==
    /\ save_button' = FALSE
    /\ quick_save_button' = FALSE
    /\ converted_text' = PyNone

\* mutant: the window is not reset before the conversion
convert_file_keep_result(file, sw, est) ==
    /\ handler = "idle"
    /\ IF file.status \in {"no path", "not found", "log name"}
       THEN UNCHANGED <<xml_vars, converted_text, save_button, quick_save_button,
                        progress_label, handler>>
       ELSE IF file.status = "unreadable"
       THEN /\ progress_label' = "Conversion Failed"
            /\ UNCHANGED <<xml_vars, converted_text, save_button, quick_save_button,
                           handler>>
       ELSE IF file.status = "log content"
       THEN /\ progress_label' = "Converting..."
            /\ UNCHANGED <<xml_vars, converted_text, save_button, quick_save_button,
                           handler>>
       ELSE /\ progress_label' = "Converting..."
            /\ suppress_warnings' = sw
            /\ extract_styled_text' = est
            /\ xml_data' = file.data
            /\ handler' = "converting"
            /\ UNCHANGED <<converted_text, save_button, quick_save_button,
                           conversion_errors, pc, records, index, bibtex_entries,
                           fields, result, stdout, had_errors>>
    /\ UNCHANGED saved_file

\* MainApp.convert_file, lines 358-410, the check boxes read at lines 407
\* and 410 being sw and est: up to the call of convert_to_bibtex
convert_file(file, sw, est) ==
    /\ handler = "idle"
    /\ IF file.status \in {"no path", "not found", "log name"}
       THEN \* lines 359-375: turned away before anything is touched
            UNCHANGED <<xml_vars, converted_text, save_button, quick_save_button,
                        progress_label, handler>>
       ELSE IF file.status = "unreadable"
       THEN \* lines 394-396 raise, lines 450-463 handle
            /\ reset_ui
            /\ progress_label' = "Conversion Failed"
            /\ UNCHANGED <<xml_vars, handler>>
       ELSE IF file.status = "log content"
       THEN \* lines 398-404
            /\ reset_ui
            /\ progress_label' = "Converting..."
            /\ UNCHANGED <<xml_vars, handler>>
       ELSE /\ reset_ui
            /\ progress_label' = "Converting..."
            /\ suppress_warnings' = sw
            /\ extract_styled_text' = est
            /\ xml_data' = file.data
            /\ handler' = "converting"
            /\ UNCHANGED <<conversion_errors, pc, records, index, bibtex_entries,
                           fields, result, stdout, had_errors>>
    /\ UNCHANGED saved_file

\* lines 416-430: what the window does with the returned text
show_conversion(called) ==
    /\ conversion_errors' = called.errors
    /\ result' = called.result
    /\ stdout' = called.out
    /\ had_errors' = (conversion_errors # <<>>)
    /\ IF called.result = <<>>
       THEN UNCHANGED <<converted_text, save_button, quick_save_button, progress_label>>
       ELSE /\ progress_label' = "Conversion Complete"
            /\ converted_text' = PyStr(called.result)
            /\ save_button' = TRUE
            /\ quick_save_button' = TRUE

\* MainApp.convert_file, lines 416-448: the call and the rest
convert_file_call ==
    /\ handler = "converting"
    /\ show_conversion(conversion(xml_data))
    /\ handler' = "idle"
    /\ UNCHANGED <<suppress_warnings, extract_styled_text, xml_data, pc, records, index,
                   bibtex_entries, fields, saved_file>>

\* MainApp._save_to_path (lines 522-559): the file is written, or open()
\* raises and nothing is
_save_to_path(file_path, written) ==
    IF written
    THEN saved_file' = [path |-> file_path, content |-> converted_text]
    ELSE UNCHANGED saved_file

\* mutant: the save does not look at converted_text first
save_file_unguarded(choice) ==
    /\ handler = "idle"
    /\ IF choice = "cancel"
       THEN UNCHANGED saved_file
       ELSE _save_to_path("refs.bib", choice = "save")
    /\ UNCHANGED <<xml_vars, converted_text, save_button, quick_save_button,
                   progress_label, handler>>

\* MainApp.save_file (lines 465-480): choice is what the file dialog and
\* the write come to
save_file(choice) ==
    /\ handler = "idle"
    /\ IF ~Truthy(converted_text)
       THEN UNCHANGED saved_file
       ELSE IF choice = "cancel"
       THEN UNCHANGED saved_file
       ELSE _save_to_path("refs.bib", choice = "save")
    /\ UNCHANGED <<xml_vars, converted_text, save_button, quick_save_button,
                   progress_label, handler>>

\* MainApp.quick_save_file (lines 482-520): choice is what the directory
\* dialog, the question about an existing converted.bib and the write come to
quick_save_file(choice) ==
    /\ handler = "idle"
    /\ IF ~Truthy(converted_text)
       THEN UNCHANGED saved_file
       ELSE IF choice \in {"cancel", "keep existing"}
       THEN UNCHANGED saved_file
       ELSE _save_to_path("converted.bib", choice = "save")
    /\ UNCHANGED <<xml_vars, converted_text, save_button, quick_save_button,
                   progress_label, handler>>

AppNext ==
    \/ \E file \in Files, sw \in BOOLEAN, est \in BOOLEAN : convert_file(file, sw, est)
    \/ convert_file_call
    \/ \E choice \in {"cancel", "save", "error"} : save_file(choice)
    \/ \E choice \in {"cancel", "keep existing", "save", "error"} : quick_save_file(choice)

AppSpec == Init /\ [][AppNext]_vars

---------------------------------------------------------------------------
(* Reading a document and a returned text, for the properties below.       *)

\* the places of a fragment in a text, in order
Positions(text, frag) ==
    SelectSeq([i \in 1..Len(text) |-> i], LAMBDA i : text[i] = frag)

Count(text, frag) == Cardinality({i \in 1..Len(text) : text[i] = frag})

\* The record elements below the root in document order, each with whether
\* its parent is a records element that is itself below the root.
RECURSIVE WalkRecords(_, _)
WalkRecords(elems, contained) ==
    IF elems = <<>> THEN <<>>
    ELSE (IF Head(elems).tag = "record"
          THEN <<[elem |-> Head(elems), contained |-> contained]>>
          ELSE <<>>)
         \o WalkRecords(Head(elems).children, Head(elems).tag = "records")
         \o WalkRecords(Tail(elems), contained)

RecordsBelow(root) == WalkRecords(root.children, FALSE)

\* The records the two search paths locate: those inside a records container
\* when there is one, all of them otherwise.
Located(root) ==
    IF \E i \in 1..Len(RecordsBelow(root)) : RecordsBelow(root)[i].contained
    THEN SelectSeq(RecordsBelow(root), LAMBDA r : r.contained)
    ELSE RecordsBelow(root)

\* every record element of the document, the root included
RecordElements(root) == SelectSeq(iter(<<root>>), LAMBDA e : e.tag = "record")

HasTitle(record) ==
    \E i \in 1..Len(iter(record.children)) : iter(record.children)[i].tag = "title"

AllHaveTitle(root) ==
    \A i \in 1..Len(RecordElements(root)) : HasTitle(RecordElements(root)[i])

WellFormedString == xml_data.kind = "str" /\ xml_data.perr = <<>>

Malformed == xml_data.kind = "str" /\ xml_data.perr # <<>>

TypeTag(record) == entry_type_of(entry_type_name_of(record)).val

\* the entries of a text are laid out one after the other, a header each,
\* with exactly one blank line between two of them
LaidOut(text, n) ==
    /\ Len(Positions(text, "@")) = n
    /\ Len(Positions(text, "\n\n")) = n - 1
    /\ Count(text, "\n}") = n
    /\ text[1] = "@"
    /\ text[Len(text)] = "\n}"
    /\ \A j \in 1..(n - 1) :
          /\ text[Positions(text, "\n\n")[j] - 1] = "\n}"
          /\ text[Positions(text, "\n\n")[j] + 1] = "@"

---------------------------------------------------------------------------
(* C1 *)

\* C1, as stated: for a well-formed string with N record elements below its
\* root, all holding a title, whatever their layout, the returned text has
\* exactly N entry headers.
C1_HeaderPerRecordElement ==
    (pc = "returned" /\ WellFormedString /\ AllHaveTitle(xml_data.root))
    => Count(result, "@") = Len(RecordsBelow(xml_data.root))

\* C1, amended: for a well-formed string whose record elements all hold a
\* title, the returned text has exactly one entry header per located record
\* (the records inside a records container below the root when there is one,
\* else every record below the root), in the order of the located records,
\* and exactly one blank line between consecutive entries.
C1_HeaderPerLocatedRecord ==
    (/\ pc = "returned"
     /\ WellFormedString
     /\ AllHaveTitle(xml_data.root)
     /\ Located(xml_data.root) # <<>>)
    => /\ LaidOut(result, Len(Located(xml_data.root)))
       /\ \A i \in 1..Len(Located(xml_data.root)) :
             /\ result[Positions(result, "@")[i] + 1] = TypeTag(Located(xml_data.root)[i].elem)
             /\ result[Positions(result, "@")[i] + 2] = "{"

\* two located records of different types, and a blank line between their
\* entries
C1_Witness ==
    /\ pc = "returned"
    /\ WellFormedString
    /\ AllHaveTitle(xml_data.root)
    /\ Len(Located(xml_data.root)) = 2
    /\ TypeTag(Located(xml_data.root)[1].elem) # TypeTag(Located(xml_data.root)[2].elem)
    /\ Count(result, "\n\n") = 1

---------------------------------------------------------------------------
(* C2 *)

\* the loop body raises for this record: its label is unhashable
LoopRaises(record) == entry_type_name_of(record).k = "list"

\* the field extraction of this record takes its failure path
ExtractFails(record) == extract_try(record).raised

\* the place among the entries of the entry of record i
EntryIndex(i) == Cardinality({k \in 1..i : ~LoopRaises(records[k])})

CountErrors(prefix) ==
    Cardinality({i \in 1..Len(conversion_errors) : conversion_errors[i][1] = prefix})

---------------------------------------------------------------------------
(* C3 *)

\* C3: a malformed string is answered at once: the call has returned the
\* empty string, the error list holds exactly the parse error with the
\* parser's message, and no record was located or processed.
C3_MalformedXml ==
    Malformed
    => /\ pc = "returned"
       /\ result = <<>>
       /\ conversion_errors = << <<"Error parsing XML: ">> \o xml_data.perr >>
       /\ records = <<>>
       /\ index = 0
       /\ bibtex_entries = <<>>

C3_Witness == pc = "returned" /\ Malformed /\ Len(conversion_errors) = 1

---------------------------------------------------------------------------
(* C4 *)

NoRecordBelow(root) ==
    \A i \in 1..Len(iter(root.children)) : iter(root.children)[i].tag # "record"

\* C4: a well-formed document with no record element below its root is
\* answered with the empty string, no entry and exactly one error, which is
\* the no-records message and not a parse error.
C4_NoRecords ==
    (/\ pc = "returned"
     /\ xml_data.kind \in {"str", "element"}
     /\ xml_data.perr = <<>>
     /\ NoRecordBelow(xml_data.root))
    => /\ result = <<>>
       /\ bibtex_entries = <<>>
       /\ conversion_errors = << <<"No records found in XML data">> >>
       /\ conversion_errors[1][1] # "Error parsing XML: "

C4_Witness ==
    /\ pc = "returned"
    /\ WellFormedString
    /\ NoRecordBelow(xml_data.root)
    /\ Len(conversion_errors) = 1

---------------------------------------------------------------------------
(* C5 *)

\* the loop has processed record i and holds its FieldSet in fields
Extracted(i) ==
    /\ pc \in {"loop", "returned"}
    /\ index = i
    /\ i >= 1
    /\ ~LoopRaises(records[i])
    /\ ~ExtractFails(records[i])

SecondaryTitle(record) == find(record, <<"titles", "secondary-title">>)

HasSecondaryTitle(record) ==
    /\ ~is_none(SecondaryTitle(record))
    /\ SecondaryTitle(record).text.k = "str"
    /\ strip(SecondaryTitle(record).text.s) # <<>>

\* C5: a record with a non-empty secondary title has it under journal when
\* its reference-type label, as the type classifier reads it, is exactly
\* "Journal Article", and under booktitle otherwise; one of the two is there.
C5_VenueRouting ==
    \A i \in 1..Len(records) :
        (Extracted(i) /\ HasSecondaryTitle(records[i]))
        => IF entry_type_name_of(records[i]) = AttrStr("Journal Article")
           THEN /\ dict_has(fields, "journal")
                /\ dict_get(fields, "journal", <<>>) = strip(SecondaryTitle(records[i]).text.s)
                /\ ~dict_has(fields, "booktitle")
           ELSE /\ dict_has(fields, "booktitle")
                /\ dict_get(fields, "booktitle", <<>>) = strip(SecondaryTitle(records[i]).text.s)
                /\ ~dict_has(fields, "journal")

---------------------------------------------------------------------------
(* C6 *)

UnknownLabel(record) ==
    /\ entry_type_name_of(record).k = "str"
    /\ \A k \in 1..Len(entry_type_map) : entry_type_map[k][1] # entry_type_name_of(record).v

\* C6: every processed record whose label is no key of the label table has
\* its entry, tagged misc, and no error about processing that record.
C6_UnknownTypeIsMisc ==
    \A i \in 1..Len(records) :
        (pc \in {"loop", "returned"} /\ i <= index /\ UnknownLabel(records[i]))
        => /\ EntryIndex(i) \in 1..Len(bibtex_entries)
           /\ SubSeq(bibtex_entries[EntryIndex(i)], 1, 3) = <<"@", "misc", "{">>
           /\ \A e \in 1..Len(conversion_errors) :
                 conversion_errors[e][1] = "Error processing record "
                 => conversion_errors[e][2] # Digit(i)
           /\ (pc = "returned" => Count(result, "@") = Len(bibtex_entries))

C6_Witness ==
    /\ pc = "returned"
    /\ Len(records) = 1
    /\ entry_type_name_of(records[1]) = AttrStr("Nonexistent Type")
    /\ SubSeq(result, 1, 3) = <<"@", "misc", "{">>
    /\ conversion_errors = <<>>

---------------------------------------------------------------------------
(* C7 *)

\* the record has no rec-number element, or one without text
NoRecNumber(record) ==
    \A i \in 1..Len(iter(record.children)) :
        iter(record.children)[i].tag = "rec-number"
        => ~Truthy(iter(record.children)[i].text)

\* the key of an entry: what stands between "{" and the first line break
EntryKey(entry) ==
    SubSeq(entry, 4,
           (CHOOSE i \in 4..Len(entry) :
               /\ entry[i] \in {"\n\t", "\n}"}
               /\ \A j \in 4..(i - 1) : entry[j] \notin {"\n\t", "\n}"}) - 1)

\* C7: a processed record without a rec-number has the key ref<N>, N being
\* one more than the number of entries produced before it; a record that
\* raised and produced no entry is not counted.
C7_RefKeyCountsEntries ==
    \A i \in 1..Len(records) :
        (/\ pc \in {"loop", "returned"}
         /\ i <= index
         /\ ~LoopRaises(records[i])
         /\ NoRecNumber(records[i]))
        => EntryKey(bibtex_entries[EntryIndex(i)])
           = <<"r", "e", "f">>
             \o str_of_int(1 + Cardinality({k \in 1..(i - 1) : ~LoopRaises(records[k])}))

\* a record that raised, then a record without rec-number that got ref1
C7_Witness ==
    /\ pc = "returned"
    /\ Len(records) = 2
    /\ LoopRaises(records[1])
    /\ NoRecNumber(records[2])
    /\ EntryKey(bibtex_entries[1]) = <<"r", "e", "f", "1">>

---------------------------------------------------------------------------
(* C8 *)

\* the document is one record holding just a title element
IsTitleRecord(record) ==
    /\ Len(record.children) = 1
    /\ record.children[1].tag = "titles"
    /\ Len(record.children[1].children) = 1
    /\ record.children[1].children[1].tag = "title"

TitleOf(record) == record.children[1].children[1]

\* the content of the element is a run of style sub-elements with str texts
IsStyleRun(elem) ==
    /\ elem.children # <<>>
    /\ \A i \in 1..Len(elem.children) :
          /\ elem.children[i].tag = "style"
          /\ elem.children[i].children = <<>>
          /\ elem.children[i].text.k # "int"

RECURSIVE StyleContent(_)
StyleContent(styles) ==
    IF styles = <<>> THEN <<>> ELSE Head(styles).text.s \o StyleContent(Tail(styles))

\* the record holding the same title as direct text
PlainTitleRecord(text) == Record(<<>>, <<Titles(<<Leaf("title", text)>>)>>)

\* C8: with extract_styled_text set, a title given as a run of style
\* sub-elements resolves to the concatenation of their texts in document
\* order, and the FieldSet is the one of the record holding that text
\* directly; with the flag cleared the style sub-elements are ignored and
\* the FieldSet is the one of the element's own direct text.
C8_StyledTextEquivalence ==
    (/\ Len(records) = 1
     /\ Extracted(1)
     /\ IsTitleRecord(records[1])
     /\ IsStyleRun(TitleOf(records[1])))
    => IF extract_styled_text
       THEN /\ dict_has(fields, "title") = (StyleContent(TitleOf(records[1]).children) # <<>>)
            /\ dict_get(fields, "title", <<>>)
               = strip(StyleContent(TitleOf(records[1]).children))
            /\ fields
               = _extract_fields_from_xml(
                     PlainTitleRecord(PyStr(StyleContent(TitleOf(records[1]).children)))).ret
       ELSE /\ dict_has(fields, "title") = Truthy(TitleOf(records[1]).text)
            /\ dict_get(fields, "title", <<>>) = strip(TitleOf(records[1]).text.s)
            /\ fields = _extract_fields_from_xml(
                            PlainTitleRecord(TitleOf(records[1]).text)).ret

\* two style sub-elements whose texts were concatenated in order
C8_Witness ==
    /\ Len(records) = 1
    /\ Extracted(1)
    /\ IsTitleRecord(records[1])
    /\ IsStyleRun(TitleOf(records[1]))
    /\ extract_styled_text
    /\ Len(TitleOf(records[1]).children) = 2
    /\ dict_get(fields, "title", <<>>) = <<"a", "b">>

---------------------------------------------------------------------------
(* C9 *)

\* C9: no value of the FieldSet is empty, and no line of the returned text
\* is of the form <field> = {}.
C9_NoEmptyValue ==
    /\ \A i \in 1..Len(fields) : fields[i][2] # <<>>
    /\ \A j \in 1..Len(result) :
          result[j] = " = {" => result[j + 1] # "},"

---------------------------------------------------------------------------
(* C10 *)

AuthorsOf(record) == find(record, <<"contributors", "authors">>)

\* the names of the author elements that resolve to more than whitespace,
\* trimmed, in document order
RECURSIVE ResolvableNames(_)
ResolvableNames(authors) ==
    IF authors = <<>> THEN <<>>
    ELSE (IF strip(_extract_text_from_styled_element(Head(authors)).val.s) # <<>>
          THEN <<strip(_extract_text_from_styled_element(Head(authors)).val.s)>>
          ELSE <<>>)
         \o ResolvableNames(Tail(authors))

\* C10: the author key is there exactly when the authors container holds a
\* resolvable author name, and its value is those names, trimmed, joined
\* with " and "; a container without one gives no author key.
C10_AuthorKey ==
    \A i \in 1..Len(records) :
        (Extracted(i) /\ ~is_none(AuthorsOf(records[i])))
        => /\ dict_has(fields, "author")
              = (ResolvableNames(findall(AuthorsOf(records[i]), <<"author">>)) # <<>>)
           /\ dict_get(fields, "author", <<>>)
              = join(<<" and ">>, ResolvableNames(findall(AuthorsOf(records[i]), <<"author">>)))

---------------------------------------------------------------------------
(* C11 *)

\* the record the loop processed last gave an entry, the last of the list
Emitted(i) ==
    /\ pc \in {"loop", "returned"}
    /\ index = i
    /\ i >= 1
    /\ ~LoopRaises(records[i])

LastEntry == bibtex_entries[Len(bibtex_entries)]

\* the field names of the lines of an entry, in order
LineNames(entry) ==
    [p \in 1..Len(Positions(entry, "\n\t")) |-> entry[Positions(entry, "\n\t")[p] + 1]]

\* the value of the line that starts at place q of an entry
ValueAt(entry, q) ==
    SubSeq(entry, q + 3,
           (CHOOSE j \in (q + 3)..Len(entry) :
               /\ entry[j] = "},"
               /\ \A k \in (q + 3)..(j - 1) : entry[k] # "},") - 1)

Front(seq) == SubSeq(seq, 1, Len(seq) - 1)

FieldNames(flds) == [k \in 1..Len(flds) |-> flds[k][1]]

\* C11: the entry of a record lists first the required fields of its type
\* that the FieldSet holds, in the order of the type's required-field list,
\* then every other field of the FieldSet in insertion order; each line has
\* the form <name> = {<value>}, with the value the FieldSet holds; every
\* field of the FieldSet is on exactly one line and no line names a field
\* the FieldSet does not hold.
C11_FormatterOrdering ==
    \A i \in 1..Len(records) :
        Emitted(i)
        => /\ LineNames(LastEntry)
              = SelectSeq(_get_required_fields(TypeTag(records[i])),
                          LAMBDA f : dict_has(fields, f))
                \o SelectSeq(FieldNames(fields),
                             LAMBDA f : ~seq_has(_get_required_fields(TypeTag(records[i])), f))
           /\ \A k \in 1..Len(fields) :
                 Cardinality({p \in 1..Len(LineNames(LastEntry)) :
                                 LineNames(LastEntry)[p] = fields[k][1]}) = 1
           /\ \A p \in 1..Len(LineNames(LastEntry)) :
                 /\ dict_has(fields, LineNames(LastEntry)[p])
                 /\ LastEntry[Positions(LastEntry, "\n\t")[p] + 2] = " = {"
                 /\ ValueAt(LastEntry, Positions(LastEntry, "\n\t")[p])
                    = dict_get(fields, LineNames(LastEntry)[p], <<>>)

\* a book section with every field: its five required fields first, in the
\* order of the table and not of the extraction, then the others
C11_Witness ==
    /\ Emitted(1)
    /\ records[1] = TypedRecord("Book Section")
    /\ SubSeq(FieldNames(fields), 1, 4) = <<"title", "author", "year", "booktitle">>
    /\ SubSeq(LineNames(LastEntry), 1, 7)
       = <<"author", "title", "booktitle", "publisher", "year", "volume", "number">>

---------------------------------------------------------------------------
(* C12 *)

MissingDiagnostic == "Warning: Missing required field(s) for BibTeX entry '"

\* the FieldSet of the record processed last lacks a required field
MissingRequired(i) ==
    missing_required(fields, _get_required_fields(TypeTag(records[i]))) # <<>>

\* C12: when the FieldSet lacks a required field of the entry's type, the
\* entry is emitted all the same, with the text the fields give whatever the
\* flag, and the error list the caller receives holds the missing-field
\* diagnostic exactly when suppress_warnings is false.
C12_MissingFieldSurfaced ==
    \A i \in 1..Len(records) :
        (Emitted(i) /\ MissingRequired(i))
        => /\ LastEntry
              = bibtex_entry_of(TypeTag(records[i]), entry_key_of(records[i], Front(bibtex_entries)),
                    required_lines(fields, _get_required_fields(TypeTag(records[i])))
                    \o flexible_lines(fields, _get_required_fields(TypeTag(records[i]))))
           /\ (~suppress_warnings)
              = (\E e \in 1..Len(conversion_errors) :
                    conversion_errors[e][1] = MissingDiagnostic)

---------------------------------------------------------------------------
(* C13 *)

\* C13: when a call ends with no entry and a non-empty error list it
\* returns the empty string; when it ends with at least one entry the
\* returned text is not empty and holds every entry, the k-th one at the
\* k-th header, also when the error list is not empty.
C13_TotalFailure ==
    pc = "returned"
    => /\ (bibtex_entries = <<>> /\ conversion_errors # <<>>) => result = <<>>
       /\ bibtex_entries # <<>>
          => /\ result # <<>>
             /\ Len(Positions(result, "@")) = Len(bibtex_entries)
             /\ \A k \in 1..Len(bibtex_entries) :
                   SubSeq(result, Positions(result, "@")[k],
                          Positions(result, "@")[k] + Len(bibtex_entries[k]) - 1)
                   = bibtex_entries[k]

\* a call that ends with an entry and an error
C13_Witness ==
    /\ pc = "returned"
    /\ bibtex_entries # <<>>
    /\ conversion_errors # <<>>
    /\ Count(result, "@") = 1

---------------------------------------------------------------------------
(* C14 *)

\* the entry the record gives as the only record of a document
Alone(record) == loop_body(0, record, <<>>, <<>>).entries[1]

\* an entry from the end of its key on: its field lines and the closing
EntryLines(entry) == SubSeq(entry, 4 + Len(EntryKey(entry)), Len(entry))

ProcessingErrors(i) ==
    {e \in 1..Len(conversion_errors) :
        /\ conversion_errors[e][1] = "Error processing record "
        /\ conversion_errors[e][2] = Digit(i)}

\* C14: of the records processed so far, each one that raised has exactly
\* one error, which names it, and no entry; each other one has its entry,
\* at its place in document order, with the type and the field lines it
\* has as the only record of a document; the errors are those of the
\* raising records and of the failed extractions, nothing else; and a call
\* that located records returns only after the last of them.
C14_FailureIsolation ==
    (pc \in {"loop", "returned"} /\ records # <<>>)
    => /\ Len(bibtex_entries) = Cardinality({k \in 1..index : ~LoopRaises(records[k])})
       /\ \A i \in 1..index :
             IF LoopRaises(records[i])
             THEN Cardinality(ProcessingErrors(i)) = 1
             ELSE /\ ProcessingErrors(i) = {}
                  /\ bibtex_entries[EntryIndex(i)][2] = Alone(records[i])[2]
                  /\ EntryLines(bibtex_entries[EntryIndex(i)]) = EntryLines(Alone(records[i]))
       /\ Len(conversion_errors)
          = Cardinality({k \in 1..index : LoopRaises(records[k])})
            + Cardinality({k \in 1..index : ~LoopRaises(records[k]) /\ ExtractFails(records[k])})
       /\ pc = "returned" => index = Len(records)

\* a record that gave its entry, then a record that raised: the call
\* returns the entry and the one error
C14_Witness ==
    /\ pc = "returned"
    /\ Len(records) = 2
    /\ ~LoopRaises(records[1])
    /\ HasTitle(records[1])
    /\ LoopRaises(records[2])
    /\ Len(bibtex_entries) = 1
    /\ Len(conversion_errors) = 1
    /\ result = bibtex_entries[1]

---------------------------------------------------------------------------
(* C15 *)

\* C15: whatever calls went before on the same instance, the text a call
\* returns and the error list it leaves are those of that call's argument
\* and flags on a fresh error list: the same argument and flags always give
\* the same text and errors, and no error of an earlier call is in the list.
C15_Stateless ==
    pc = "returned"
    => /\ result = conversion(xml_data).result
       /\ conversion_errors = conversion(xml_data).errors
       /\ stdout = conversion(xml_data).out

\* a call that returned entries and no error, on an instance whose earlier
\* call had left errors
C15_Witness ==
    /\ pc = "returned"
    /\ had_errors
    /\ conversion_errors = <<>>
    /\ result # <<>>

---------------------------------------------------------------------------
(* C16 *)

\* the ref-type elements below a record, in document order
RefTypeElems(record) == SelectSeq(iter(record.children), LAMBDA e : e.tag = "ref-type")

NamedRefType(record) ==
    /\ RefTypeElems(record) # <<>>
    /\ attrib_has(RefTypeElems(record)[1], "name")

\* the label by the stated precedence
PrecedenceLabel(record) ==
    IF NamedRefType(record) THEN attrib_get(RefTypeElems(record)[1], "name", AttrStr(""))
    ELSE IF attrib_has(record, "ref-type") THEN attrib_get(record, "ref-type", AttrStr(""))
    ELSE AttrStr("Generic")

\* C16: the entry of every processed record carries the type of the label
\* taken by precedence: the name attribute of the record's ref-type element
\* when there is one with a name, else the record's own ref-type attribute,
\* also when a ref-type element without a name is there, else Generic, which
\* gives misc.
C16_LabelPrecedence ==
    \A i \in 1..Len(records) :
        (pc \in {"loop", "returned"} /\ i <= index /\ PrecedenceLabel(records[i]).k = "str")
        => /\ EntryIndex(i) \in 1..Len(bibtex_entries)
           /\ bibtex_entries[EntryIndex(i)][2]
              = dict_get(entry_type_map, PrecedenceLabel(records[i]).v, "misc")
           /\ (~NamedRefType(records[i]) /\ ~attrib_has(records[i], "ref-type"))
              => bibtex_entries[EntryIndex(i)][2] = "misc"

\* a record with a ref-type element that has no name and with its own
\* ref-type attribute: the attribute decides
C16_Witness ==
    /\ pc = "returned"
    /\ Len(records) = 1
    /\ RefTypeElems(records[1]) # <<>>
    /\ ~NamedRefType(records[1])
    /\ attrib_get(records[1], "ref-type", AttrStr("")) = AttrStr("Book")
    /\ SubSeq(result, 1, 3) = <<"@", "book", "{">>

---------------------------------------------------------------------------
(* C17 *)

\* C17: the keys of the entries of one call are pairwise distinct.
C17_DistinctKeys ==
    \A j, k \in 1..Len(bibtex_entries) :
        j # k => EntryKey(bibtex_entries[j]) # EntryKey(bibtex_entries[k])

---------------------------------------------------------------------------
(* C18 *)

HasRow(entry_type) ==
    \E r \in 1..Len(required_fields_table) : required_fields_table[r][1] = entry_type

\* the field names the extractor stores under
ExtractorVocabulary ==
    ({ExtractSteps[k][3] : k \in 1..Len(ExtractSteps)} \ {""}) \cup {"journal", "booktitle"}

\* a record of that type exists whose entry misses no required field: the
\* record with every field, under some label of the type
Satisfiable(entry_type) ==
    \E l \in TableLabels :
        /\ dict_get(entry_type_map, l, "misc") = entry_type
        /\ missing_required(_extract_fields_from_xml(TypedRecord(l)).ret,
                            _get_required_fields(entry_type)) = <<>>

\* C18: the type of every processed record labelled from the table has a
\* row in the required-field table, every field name of the row is one the
\* extractor stores under, and some record of that type has an entry with
\* no required field missing.
C18_RequiredSatisfiable ==
    \A i \in 1..Len(records) :
        (Emitted(i) /\ records[i] \in {TypedRecord(l) : l \in TableLabels})
        => /\ HasRow(TypeTag(records[i]))
           /\ \A k \in 1..Len(_get_required_fields(TypeTag(records[i]))) :
                 _get_required_fields(TypeTag(records[i]))[k] \in ExtractorVocabulary
           /\ Satisfiable(TypeTag(records[i]))

---------------------------------------------------------------------------
(* C19 *)

\* the save buttons are shown exactly when a result is held, and a result
\* is held only as the text of the last conversion that got past the file
\* checks, when that conversion succeeded
ButtonsFollowResult ==
    /\ save_button = quick_save_button
    /\ save_button = Truthy(converted_text)
    /\ Truthy(converted_text)
       => /\ progress_label = "Conversion Complete"
          /\ converted_text = PyStr(result)
    /\ progress_label \in {"Converting...", "Conversion Failed"}
       => /\ converted_text = PyNone
          /\ ~save_button

\* a step that writes a file writes the result held, which is not empty
WritesResultHeld ==
    saved_file' # saved_file
    => /\ Truthy(converted_text)
       /\ saved_file'.content = converted_text
       /\ converted_text' = converted_text

\* C19: after any sequence of convert_file, save_file and quick_save_file
\* the save buttons are shown exactly when converted_text holds a non-empty
\* result; a conversion that got past the file checks and did not succeed
\* leaves no result and hidden buttons, so that no earlier result can be
\* written after it; and a save writes nothing when converted_text is empty.
C19_SaveButtons == [](ButtonsFollowResult) /\ [][WritesResultHeld]_vars

\* a result was saved, then a conversion got past the file checks and did
\* not succeed: nothing is held and the buttons are hidden
C19_Witness ==
    /\ handler = "idle"
    /\ saved_file.content # PyNone
    /\ progress_label \in {"Converting...", "Conversion Failed"}
    /\ converted_text = PyNone
    /\ ~save_button
    /\ ~quick_save_button

====
